---- MODULE Spec2Model ----
(***************************************************************************)
(* Model of VaizMCPProxyServer (src/src/proxy-server.ts): the stdio to     *)
(* HTTP proxy with retries, session handling, response cache and the       *)
(* background health check.  Every await of the source is a separate step, *)
(* so request handlers, health-check ticks and notifications interleave as *)
(* they do on the event loop.                                              *)
(***************************************************************************)
EXTENDS Integers, Sequences, FiniteSets, TLC

\* ---------------------------------------------------------------- bounds
\* health-check callbacks that may be in flight at the same time (SpecHealth)
MaxTicks == 2
\* complete lines one chunk of an SSE stream can bring
MaxChunkLines == 1
\* lines of the body of an SSE stream that is read character by character, and
\* characters one chunk of such a stream can bring (SpecBody)
MaxBodyLines == 2
MaxChunkChars == 3

\* ------------------------------------------------------- program constants
MAX_RETRIES == 3
RETRY_DELAY_MS == 1000
ERR_UNAVAILABLE == -32000

\* ------------------------------------------------------------ value domains
Null == "null"
NoId == "none"
REINIT_ID == "_reinit_"
\* ids a local request can carry, and an id only the upstream uses
ReqIds == {"42"}
UpstreamId == "u9"
Methods == {"initialize", "tools/list", "tools/call"}
NotifMethods == {"notifications/initialized", "notifications/cancelled"}
CachedMethods == {"initialize", "tools/list"}
SessionIds == {"s1"}
\* the Mcp-Session-Id header of an upstream response: absent or a value
SidHeaders == {Null} \cup SessionIds
Statuses == {200, 400, 403, 404, 429, 500}
Payloads == {"p1"}
DEFAULT_PARAMS == "default"
API_KEY == "token"
SpaceIds == {Null, "space"}

\* exceptions a fetch / body read can throw
TypeErr == [type |-> "TypeError", msg |-> <<"terminated">>]
SockErr == [type |-> "Error", msg |-> <<"socket", "hang", "up">>]
SyntaxErr == [type |-> "SyntaxError", msg |-> <<"unexpected", "token">>]
Exceptions == {TypeErr, SockErr, SyntaxErr}
TransientWords == {"fetch", "network", "econnrefused", "econnreset", "etimedout", "socket", "abort"}

\* ----------------------------------------------------------- JSON objects
NoErr == [kind |-> "undefined", msg |-> <<>>]
NoMessage == [text |-> "", reason |-> NoErr]

ResultObj(id, body) ==
  [kind |-> "result", id |-> id, body |-> body, code |-> 0, message |-> NoMessage]

ErrorObj(id, code, message) ==
  [kind |-> "error", id |-> id, body |-> "", code |-> code, message |-> message]

NotifObj(method) ==
  [kind |-> "notification", id |-> NoId, body |-> method, code |-> 0, message |-> NoMessage]

\* `{ ...cached, id: request.id }`
WithId(obj, id) == [obj EXCEPT !.id = id]

\* truthiness of `x.result`
HasResult(obj) == obj.kind = "result"

ToolsChanged == NotifObj("notifications/tools/list_changed")

\* ---------------------------------------------------------------- helpers
RECURSIVE Pow2(_)
Pow2(n) == IF n <= 0 THEN 1 ELSE 2 * Pow2(n - 1)

\* a backoff that grows linearly instead of doubling
RetryDelayLinear(attempt) == RETRY_DELAY_MS * attempt

\* delay of proxyRequest before attempt `attempt` (> 0)
RetryDelay(attempt) == RETRY_DELAY_MS * Pow2(attempt - 1)

MsgIncludes(msg, w) == \E i \in 1..Len(msg) : msg[i] = w

isTransientError(e) ==
  IF e.type = "TypeError" THEN TRUE
  ELSE \E w \in TransientWords : MsgIncludes(e.msg, w)

\* a classification that retries every status from 400 on
isRetryableStatusAnyError(status) == status >= 400

isRetryableStatus(status) == status >= 500 \/ status = 429

ResponseOk(status) == status >= 200 /\ status <= 299

\* headers that never carry the session id
getHeadersNoSession(apiKey, space, sid) ==
  [Authorization |-> <<"Bearer", apiKey>>,
   CurrentSpaceId |-> space,
   ContentType |-> "application/json",
   Accept |-> "application/json, text/event-stream",
   McpSessionId |-> Null]

\* a header that is left out is Null
getHeaders(apiKey, space, sid) ==
  [Authorization |-> <<"Bearer", apiKey>>,
   CurrentSpaceId |-> space,
   ContentType |-> "application/json",
   Accept |-> "application/json, text/event-stream",
   McpSessionId |-> sid]

\* one POST to the upstream: the JSON-RPC method and id of its body and its headers
Post(method, id, params, headers) ==
  [method |-> method, id |-> id, params |-> params, headers |-> headers]

\* ---------------------------------------------------- health check state
\* h = [apiHealthy, sessionId, healthCheckTimer, liveTimers]; healthCheckTimer is
\* "the handle is non-null", liveTimers counts the intervals not yet cleared.
startHealthCheck(h) ==
  IF h.healthCheckTimer THEN h
  ELSE [h EXCEPT !.healthCheckTimer = TRUE, !.liveTimers = @ + 1]

stopHealthCheck(h) ==
  IF h.healthCheckTimer
  THEN [h EXCEPT !.healthCheckTimer = FALSE, !.liveTimers = @ - 1]
  ELSE h

\* marking down without dropping the session
markApiDownKeepSession(h) ==
  IF ~h.apiHealthy THEN h
  ELSE startHealthCheck([h EXCEPT !.apiHealthy = FALSE])

\* marking the API down without starting the prober
markApiDownNoProber(h) ==
  IF ~h.apiHealthy THEN h ELSE [h EXCEPT !.apiHealthy = FALSE, !.sessionId = Null]

markApiDown(h) ==
  IF ~h.apiHealthy THEN h
  ELSE startHealthCheck([h EXCEPT !.apiHealthy = FALSE, !.sessionId = Null])

\* a fallback that serves the cached object as stored, without the request's id
ExhaustReplyStaleId(method, id, cache, lastError) ==
  IF method = "tools/list"
  THEN IF "tools/list" \in DOMAIN cache
       THEN cache["tools/list"]
       ELSE ResultObj(id, "tools:[]")
  ELSE IF method = "initialize" /\ "initialize" \in DOMAIN cache
       THEN cache["initialize"]
       ELSE ErrorObj(id, ERR_UNAVAILABLE, [text |-> "API unavailable: ", reason |-> lastError])

\* the reply of proxyRequest once the retry loop is left without success
ExhaustReply(method, id, cache, lastError) ==
  IF method = "tools/list"
  THEN IF "tools/list" \in DOMAIN cache
       THEN WithId(cache["tools/list"], id)
       ELSE ResultObj(id, "tools:[]")
  ELSE IF method = "initialize" /\ "initialize" \in DOMAIN cache
       THEN WithId(cache["initialize"], id)
       ELSE ErrorObj(id, ERR_UNAVAILABLE, [text |-> "API unavailable: ", reason |-> lastError])

\* responseCache.set(key, obj)
CacheSet(cache, key, obj) ==
  [k \in DOMAIN cache \cup {key} |-> IF k = key THEN obj ELSE cache[k]]

\* caching that does not look at `result.result`
CacheJsonAny(cache, method, result) ==
  IF method \in CachedMethods THEN CacheSet(cache, method, result) ELSE cache

\* "Cache critical methods" of proxyRequest
CacheJson(cache, method, result) ==
  IF method \in CachedMethods /\ HasResult(result)
  THEN CacheSet(cache, method, result)
  ELSE cache

\* caching in reinitializeSession
CacheReinit(cache, result) ==
  IF HasResult(result) THEN CacheSet(cache, "initialize", result) ELSE cache


\* ------------------------------------------------------------------ state
VARIABLES
  env,              \* the scenario: what the local peer and the upstream may do (constant)
  spaceId,          \* config, immutable after construction
  sessionId,        \* Null or the current Mcp-Session-Id
  initialized,
  lastInitParams,   \* "none" or the params of the last local initialize
  responseCache,    \* function from the cached method names to responses
  apiHealthy,
  healthCheckTimer, \* TRUE iff the timer handle is non-null
  liveTimers,       \* number of setInterval timers not yet cleared
  reqs,             \* in-flight proxyRequest calls, one record of locals each
  ticks,            \* in-flight health-check callbacks: how many wait at each await
  written,          \* objects written to stdout by the last step, in order
  posts,            \* upstream POSTs issued by the last step
  ev,               \* how a handler ended, when the last step ended one
  rec,              \* notifications/tools/list_changed written for the recovery a tick brought about
  silent,           \* the API is healthy since a request recovered it without writing a notification
  stopped,          \* stop() has been called
  upstreamUp        \* the upstream has begun to answer every initialize of a re-init with HTTP-ok and a JSON body

vars == <<env, spaceId, sessionId, initialized, lastInitParams, responseCache, apiHealthy,
          healthCheckTimer, liveTimers, reqs, ticks, written, posts, ev, rec,
          silent, stopped, upstreamUp>>

Slots == DOMAIN reqs

\* the awaits of reinitializeSession a health-check callback can wait at
TickPcs == {"reinit_fetch", "reinit_json", "reinit_notif"}

InFlight(tk) == tk["reinit_fetch"] + tk["reinit_json"] + tk["reinit_notif"]

\* a JSON body the upstream may send in answer to a request with id `id`
UpstreamReplies(id) ==
  { ResultObj(i, p) : i \in {id} \cup env.upstreamIds, p \in Payloads }
    \cup { ErrorObj(i, -32601, [text |-> "upstream", reason |-> NoErr]) :
              i \in {id} \cup env.upstreamIds }

\* locals of a proxyRequest call that is not running; nposts, sleeps and netOnly record
\* its POSTs of the request, its backoff sleeps and (where failures are watched) whether
\* every failure so far was a thrown transient error; where sessions are watched, remint
\* tells that the attempt under way follows a successful re-init and lostSid is the
\* session id that was current when the last attempt threw a transient error; where
\* the order of writes is watched, back tells that the attempt under way took the
\* "API is back" action; where reads are watched, read is the chunk a read of the
\* stream returned (kept in the record of that step only); buffer is the local of
\* handleSSEResponse (empty between chunks of complete lines), and where a stream is
\* read character by character nread counts the characters read and forwarded lists
\* the objects the stream has forwarded; where answers are watched, answers tallies the
\* response objects the call has written, oks its attempts that got an HTTP-ok reply
\* and sawSSE tells that one of those replies was an event stream, which ends the tallies
IdleReq ==
  [pc |-> "idle", method |-> "", id |-> NoId, params |-> "none", attempt |-> 0,
   lastError |-> NoErr, responseSent |-> FALSE, nposts |-> 0, sleeps |-> <<>>,
   netOnly |-> TRUE, remint |-> FALSE, lostSid |-> Null, back |-> FALSE, read |-> <<>>,
   buffer |-> <<>>, nread |-> 0, forwarded |-> <<>>,
   answers |-> 0, oks |-> 0, sawSSE |-> FALSE]

\* no health-check callback is running
NoTicks == [pc \in TickPcs |-> 0]

\* the end of a handler: how it ended, its locals at that point, the failure that ended
\* it, the session id it found when it left the retry loop
Ev(end, q, cause, sid) ==
  [end |-> end, req |-> q, cause |-> cause, sid |-> sid]

Quiet == Ev("", IdleReq, NoErr, Null)

H ==
  [apiHealthy |-> apiHealthy, sessionId |-> sessionId,
   healthCheckTimer |-> healthCheckTimer, liveTimers |-> liveTimers]

Headers == getHeaders(API_KEY, spaceId, sessionId)

\* the values of lastError; the status number and text are left out of the reason
HttpErr == [kind |-> "HTTP <status>", msg |-> <<>>]
HttpTextErr == [kind |-> "HTTP <status>: <statusText>", msg |-> <<>>]
ReinitFailedErr == [kind |-> "HTTP <status>: session re-init failed", msg |-> <<>>]
ExcErr(e) == [kind |-> "message", msg |-> e.msg]

CountChanged(wr) == Cardinality({i \in 1..Len(wr) : wr[i] = ToolsChanged})

RecAfter(after, wr, byTick) ==
  IF ~after THEN 0
  ELSE IF ~apiHealthy THEN (IF byTick THEN CountChanged(wr) ELSE 0)
  ELSE IF rec > 0 THEN rec + CountChanged(wr) ELSE 0

\* whether the API, healthy after the step, owes that to a request that wrote no
\* notification when it marked the API healthy
SilentAfter(after, wr, byTick) ==
  IF ~after THEN FALSE
  ELSE IF ~apiHealthy THEN ~byTick /\ CountChanged(wr) = 0
  ELSE silent

\* the new state after one step of a handler; handlers run until the process exits
Commit(h, init, lip, cache, rq, tk, wr, po, e, byTick) ==
  /\ ~stopped
  /\ apiHealthy' = h.apiHealthy
  /\ sessionId' = h.sessionId
  /\ healthCheckTimer' = h.healthCheckTimer
  /\ liveTimers' = h.liveTimers
  /\ initialized' = init
  /\ lastInitParams' = lip
  /\ responseCache' = cache
  /\ reqs' = rq
  /\ ticks' = tk
  /\ written' = wr
  /\ posts' = IF env.watchPosts THEN po ELSE <<>>
  /\ ev' = e
  /\ rec' = IF env.watchRecovery THEN RecAfter(h.apiHealthy, wr, byTick) ELSE 0
  /\ silent' = (env.watchSilent /\ SilentAfter(h.apiHealthy, wr, byTick))
  /\ UNCHANGED <<env, spaceId, stopped, upstreamUp>>

\* a step of request handler r
\* the response objects among the objects wr
CountResponses(wr) ==
  Cardinality({i \in DOMAIN wr : wr[i].kind \in {"result", "error"}})

\* the tallies of handler r after a step that leaves its locals q, writes wr and is
\* recorded as e; they are kept until an event stream is seen
Tally(r, q, wr, e) ==
  LET p == reqs[r]
      okNow == p.pc = "fetch" /\ (q.pc \in {"json", "sse"} \/ e.end = "no_body")
      sse == p.sawSSE \/ q.pc = "sse" \/ e.end = "no_body"
  IN [answers |-> IF sse THEN 0 ELSE p.answers + CountResponses(wr),
      oks |-> IF sse THEN 0 ELSE p.oks + (IF okNow THEN 1 ELSE 0),
      sawSSE |-> sse]

WithTally(q, t) == [q EXCEPT !.answers = t.answers, !.oks = t.oks, !.sawSSE = t.sawSSE]

ReqCommit(r, q, h, init, lip, cache, wr, po, e) ==
  LET t == Tally(r, q, wr, e)
      q1 == IF env.watchAnswers /\ q.pc # "idle" THEN WithTally(q, t) ELSE q
      e1 == IF env.watchAnswers /\ e.end # "" THEN [e EXCEPT !.req = WithTally(@, t)] ELSE e
  IN Commit(h, init, lip, cache, [reqs EXCEPT ![r] = q1], ticks, wr, po, e1, FALSE)

\* the state after construction, in scenario e with spaceId among spaces
InitIn(e, spaces) ==
  /\ env = e
  /\ spaceId \in spaces
  /\ sessionId = Null
  /\ initialized = FALSE
  /\ lastInitParams = "none"
  /\ responseCache = << >>
  /\ apiHealthy = TRUE
  /\ healthCheckTimer = FALSE
  /\ liveTimers = 0
  /\ reqs = [r \in 1..e.requests |-> IdleReq]
  /\ ticks = NoTicks
  /\ written = <<>>
  /\ posts = <<>>
  /\ ev = Quiet
  /\ rec = 0
  /\ silent = FALSE
  /\ stopped = FALSE
  /\ upstreamUp = FALSE

\* --------------------------------------------------------- proxyRequest
ParamsOf(method) ==
  IF method = "initialize" THEN env.initParams
  ELSE IF method = "tools/call" THEN {"pB"} ELSE {"none"}

\* lines 208-230, first iteration: remember init params, POST the request
StartRequest(r, method, id, params) ==
  /\ reqs[r].pc = "idle"
  /\ \A q \in 1..(r - 1) : reqs[q].pc # "idle"
  /\ LET lip == IF method = "initialize" /\ params # "none" THEN params ELSE lastInitParams
         q == [IdleReq EXCEPT !.pc = "fetch", !.method = method, !.id = id,
                              !.params = params, !.nposts = 1]
     IN ReqCommit(r, q, H, initialized, lip, responseCache,
                  <<>>, <<Post(method, id, params, Headers)>>, Quiet)

\* leaving the loop without the `return` after a reply served in place of an error
ExhaustFallThrough(r, q, h, cause) ==
  LET reply == ExhaustReply(q.method, q.id, responseCache, q.lastError)
      error == ErrorObj(q.id, ERR_UNAVAILABLE,
                        [text |-> "API unavailable: ", reason |-> q.lastError])
  IN ReqCommit(r, IdleReq, markApiDown(h), initialized, lastInitParams, responseCache,
               IF reply = error THEN <<reply>> ELSE <<reply, error>>, <<>>,
               Ev("exhaust", q, cause, h.sessionId))

\* lines 314-353: leave the loop without success
Exhaust(r, q, h, cause) ==
  ReqCommit(r, IdleReq, markApiDown(h), initialized, lastInitParams, responseCache,
            <<ExhaustReply(q.method, q.id, responseCache, q.lastError)>>, <<>>,
            Ev("exhaust", q, cause, h.sessionId))

\* `continue`: attempt++, then lines 219-223 start the backoff sleep
Continue(r, q, h, init) ==
  LET q1 == [q EXCEPT !.attempt = @ + 1, !.pc = "sleep", !.back = FALSE,
                      !.sleeps = Append(@, RetryDelay(q.attempt + 1))]
  IN ReqCommit(r, q1, h, init, lastInitParams, responseCache, <<>>, <<>>, Quiet)

\* lines 299-311: the catch block of the attempt
\* a catch block that keeps the session id
ReqCatchKeepSession(r, e) ==
  LET q == [reqs[r] EXCEPT !.lastError = ExcErr(e),
                            !.netOnly = @ /\ (isTransientError(e) \/ ~env.watchFailures),
                            !.remint = FALSE,
                            !.lostSid = IF env.watchSession /\ isTransientError(e)
                                        THEN sessionId ELSE Null]
  IN IF ~isTransientError(e) \/ q.attempt >= MAX_RETRIES
     THEN Exhaust(r, q, H, ExcErr(e))
     ELSE Continue(r, q, H, initialized)

ReqCatch(r, e) ==
  LET q == [reqs[r] EXCEPT !.lastError = ExcErr(e),
                            !.netOnly = @ /\ (isTransientError(e) \/ ~env.watchFailures),
                            !.remint = FALSE,
                            !.lostSid = IF env.watchSession /\ isTransientError(e)
                                        THEN sessionId ELSE Null]
      h == IF isTransientError(e) /\ sessionId # Null THEN [H EXCEPT !.sessionId = Null] ELSE H
  IN IF ~isTransientError(e) \/ q.attempt >= MAX_RETRIES
     THEN Exhaust(r, q, h, ExcErr(e))
     ELSE Continue(r, q, h, initialized)

\* the sleep of lines 219-223 is over: POST again (lines 226-230)
SleepDone(r) ==
  /\ reqs[r].pc = "sleep"
  /\ LET q == [reqs[r] EXCEPT !.pc = "fetch", !.nposts = @ + 1]
     IN ReqCommit(r, q, H, initialized, lastInitParams, responseCache,
                  <<>>, <<Post(q.method, q.id, q.params, Headers)>>, Quiet)

FetchThrow(r, e) ==
  /\ reqs[r].pc = "fetch"
  /\ ReqCatch(r, e)

\* marking up without stopping the health check
MarkBackNoStop(h) == [h EXCEPT !.apiHealthy = TRUE]

\* "API is back (via successful request)", lines 272-279
MarkBack(h) ==
  IF ~h.apiHealthy THEN stopHealthCheck([h EXCEPT !.apiHealthy = TRUE]) ELSE h

\* a recovery that is never announced
BackNoticeNone(h, method) == <<>>

BackNotice(h, method) ==
  IF ~h.apiHealthy /\ method # "tools/list" THEN <<ToolsChanged>> ELSE <<>>

\* a response whose Mcp-Session-Id is never looked at
CaptureNone(h, sid) == h

\* session capture of lines 232-237
Capture(h, sid) == IF sid # Null THEN [h EXCEPT !.sessionId = sid] ELSE h

NoBodyError(id) ==
  ErrorObj(id, ERR_UNAVAILABLE, [text |-> "No response body available", reason |-> NoErr])

\* the fetch of an attempt returns a response that is not ok: lines 232-241
FetchNotOk(r, sid) ==
  /\ reqs[r].pc = "fetch"
  /\ ReqCommit(r, [reqs[r] EXCEPT !.pc = "text"], Capture(H, sid), initialized,
               lastInitParams, responseCache, <<>>, <<>>, Quiet)

\* the fetch of an attempt returns an ok response: lines 232-237, 270-288, 361-380
FetchOk(r, sid, ctype, hasBody) ==
  /\ reqs[r].pc = "fetch"
  /\ LET h0 == Capture(H, sid)
         h1 == MarkBack(h0)
         q == [reqs[r] EXCEPT !.back = env.watchOrder /\ ~h0.apiHealthy]
         note == BackNotice(h0, q.method)
     IN IF ctype = "sse"
        THEN IF hasBody
             THEN ReqCommit(r, [q EXCEPT !.pc = "sse", !.responseSent = FALSE], h1,
                            initialized, lastInitParams, responseCache, note, <<>>, Quiet)
             ELSE ReqCommit(r, IdleReq, h1, initialized, lastInitParams, responseCache,
                            note \o <<NoBodyError(q.id)>>, <<>>, Ev("no_body", q, NoErr, Null))
        ELSE /\ hasBody
             /\ ReqCommit(r, [q EXCEPT !.pc = "json"], h1, initialized, lastInitParams,
                          responseCache, note, <<>>, Quiet)

\* reinitializeSession up to its first await (lines 157-176): clear, POST initialize
\* a re-init that keeps the session id it found
ReinitBeginKeepSession(h) == h

ReinitBegin(h) == [h EXCEPT !.sessionId = Null]

ReinitPost(space, lip, sid) ==
  Post("initialize", REINIT_ID, IF lip # "none" THEN lip ELSE DEFAULT_PARAMS,
       getHeaders(API_KEY, space, sid))

\* lines 183-187: the session id of the re-init response
ReinitCapture(h, sid) == IF sid # Null THEN [h EXCEPT !.sessionId = sid] ELSE h

\* lines 195-199: the notifications/initialized POST
InitializedPost(space, sid) ==
  Post("notifications/initialized", NoId, "none", getHeaders(API_KEY, space, sid))

\* response.text() of a non-ok response with status `status` returns: lines 242-267
TextReturn(r, status) ==
  /\ reqs[r].pc = "text"
  /\ ~ResponseOk(status)
  /\ LET q == reqs[r]
     IN IF isRetryableStatus(status) /\ q.attempt < MAX_RETRIES
        THEN Continue(r, [q EXCEPT !.lastError = HttpErr, !.netOnly = ~env.watchFailures,
                                   !.remint = FALSE, !.lostSid = Null], H, initialized)
        ELSE IF (status = 400 \/ status = 404) /\ q.attempt < MAX_RETRIES
        THEN ReqCommit(r, [q EXCEPT !.pc = "reinit_fetch", !.netOnly = ~env.watchFailures,
                                    !.remint = FALSE, !.lostSid = Null],
                       ReinitBegin(H), FALSE,
                       lastInitParams, responseCache, <<>>,
                       <<ReinitPost(spaceId, lastInitParams, ReinitBegin(H).sessionId)>>, Quiet)
        ELSE Exhaust(r, [q EXCEPT !.lastError = HttpTextErr, !.netOnly = ~env.watchFailures], H, HttpTextErr)

TextThrow(r, e) ==
  /\ reqs[r].pc = "text"
  /\ ReqCatch(r, e)

\* response.json() returns: lines 288-297
JsonReturn(r, result) ==
  /\ reqs[r].pc = "json"
  /\ result \in UpstreamReplies(reqs[r].id)
  /\ ReqCommit(r, IdleReq, H, initialized, lastInitParams,
               CacheJson(responseCache, reqs[r].method, result),
               <<result>>, <<>>, Ev("reply", reqs[r], NoErr, Null))

JsonThrow(r, e) ==
  /\ reqs[r].pc = "json"
  /\ ReqCatch(r, e)

\* ------------------------------------------------------ handleSSEResponse
\* a line of the stream: a `data: ` line holding a JSON object, or anything else
JunkLine == [kind |-> "junk", id |-> NoId, body |-> "", code |-> 0, message |-> NoMessage]

SSELines(id) == UpstreamReplies(id) \cup {NotifObj("notifications/progress"), JunkLine}

Chunks(id) == UNION { [1..n -> SSELines(id)] : n \in 1..MaxChunkLines }

\* a reader that takes any parsed object for the response of the request
RECURSIVE ProcessLinesAnyObject(_, _, _, _)
ProcessLinesAnyObject(lines, requestId, method, st) ==
  IF lines = <<>> THEN st
  ELSE LET parsed == Head(lines)
           st1 == IF parsed.kind = "junk" THEN st
                  ELSE [sent |-> TRUE, cache |-> st.cache, out |-> Append(st.out, parsed)]
       IN ProcessLinesAnyObject(Tail(lines), requestId, method, st1)

\* lines 387-407 for the complete lines of one chunk; st = [sent, cache, out]
RECURSIVE ProcessLines(_, _, _, _)
ProcessLines(lines, requestId, method, st) ==
  IF lines = <<>> THEN st
  ELSE LET parsed == Head(lines)
           st1 == IF parsed.kind = "junk" THEN st
                  ELSE LET match == parsed.id # NoId /\ parsed.id = requestId
                       IN [sent |-> st.sent \/ match,
                           cache |-> IF match /\ method \in CachedMethods /\ HasResult(parsed)
                                     THEN CacheSet(st.cache, method, parsed)
                                     ELSE st.cache,
                           out |-> Append(st.out, parsed)]
       IN ProcessLines(Tail(lines), requestId, method, st1)

SSERead(r, chunk) ==
  /\ reqs[r].pc = "sse"
  /\ chunk \in Chunks(reqs[r].id)
  /\ LET q == reqs[r]
         st == ProcessLines(chunk, q.id, q.method,
                            [sent |-> q.responseSent, cache |-> responseCache, out |-> <<>>])
     IN ReqCommit(r, [q EXCEPT !.responseSent = st.sent], H, initialized, lastInitParams,
                  st.cache, st.out, <<>>,
                  IF env.watchReads THEN Ev("sse_read", [q EXCEPT !.read = chunk], NoErr, Null)
                  ELSE Quiet)

NoValidResponseError(id) ==
  ErrorObj(id, ERR_UNAVAILABLE,
           [text |-> "No valid response received from SSE stream", reason |-> NoErr])

\* a stream that ends without the error of lines 413-422
SSEDoneSilent(r) ==
  /\ reqs[r].pc = "sse"
  /\ ReqCommit(r, IdleReq, H, initialized, lastInitParams, responseCache,
               <<>>, <<>>, Ev("sse_end", reqs[r], NoErr, Null))

\* reader.read() reports done: lines 381, 409-423
SSEDone(r) ==
  /\ reqs[r].pc = "sse"
  /\ LET q == reqs[r]
     IN ReqCommit(r, IdleReq, H, initialized, lastInitParams, responseCache,
                  IF ~q.responseSent THEN <<NoValidResponseError(q.id)>> ELSE <<>>,
                  <<>>, Ev("sse_end", q, NoErr, Null))

\* ---- the stream character by character (a token stands for the characters in it)
DataPrefix == <<"data:", " ">>

\* buffer.split('\n') and lines.pop(): the complete lines of s and what follows the
\* last line feed (lines 384-385); cur is the line under way, acc the lines so far
RECURSIVE SplitLines(_, _, _)
SplitLines(s, cur, acc) ==
  IF s = <<>> THEN [lines |-> acc, buffer |-> cur]
  ELSE IF Head(s) = "\n" THEN SplitLines(Tail(s), <<>>, Append(acc, cur))
  ELSE SplitLines(Tail(s), Append(cur, Head(s)), acc)

\* a split that takes what follows the last line feed for a line as well
SplitLinesFlush(s, cur, acc) ==
  LET sp == SplitLines(s, cur, acc)
  IN [lines |-> IF sp.buffer = <<>> THEN sp.lines ELSE Append(sp.lines, sp.buffer),
      buffer |-> <<>>]

\* String.prototype.trim for the white space of the model
RECURSIVE TrimLeft(_)
TrimLeft(s) == IF s # <<>> /\ Head(s) = " " THEN TrimLeft(Tail(s)) ELSE s

RECURSIVE TrimRight(_)
TrimRight(s) ==
  IF s # <<>> /\ s[Len(s)] = " " THEN TrimRight(SubSeq(s, 1, Len(s) - 1)) ELSE s

Trim(s) == TrimRight(TrimLeft(s))

NotSpace(c) == c # " "

\* JSON.parse(data): the texts {A} and {B}, white space between their tokens allowed,
\* are the response to the request and a progress notification; any other text throws
ParseJson(data, requestId) ==
  LET t == SelectSeq(data, NotSpace)
  IN IF t = <<"{", "A", "}">> THEN ResultObj(requestId, "p1")
     ELSE IF t = <<"{", "B", "}">> THEN NotifObj("notifications/progress")
     ELSE JunkLine

\* lines 388-392 and 406: what one line of text is to the loop of ProcessLines
ParseLine(line, requestId) ==
  IF Len(line) >= Len(DataPrefix) /\ SubSeq(line, 1, Len(DataPrefix)) = DataPrefix
  THEN LET data == Trim(SubSeq(line, Len(DataPrefix) + 1, Len(line)))
       IN IF data # <<>> /\ data # <<"[DONE]">> THEN ParseJson(data, requestId)
          ELSE JunkLine
  ELSE JunkLine

ParseLines(lines, requestId) == [i \in 1..Len(lines) |-> ParseLine(lines[i], requestId)]

\* one turn of the read loop (lines 381-408) on the next n characters of the body
SSEReadText(r, n) ==
  /\ reqs[r].pc = "sse"
  /\ reqs[r].nread + n <= Len(env.stream)
  /\ LET q == reqs[r]
         chunk == SubSeq(env.stream, q.nread + 1, q.nread + n)
         sp == SplitLines(q.buffer \o chunk, <<>>, <<>>)
         st == ProcessLines(ParseLines(sp.lines, q.id), q.id, q.method,
                            [sent |-> q.responseSent, cache |-> responseCache, out |-> <<>>])
     IN ReqCommit(r, [q EXCEPT !.responseSent = st.sent, !.buffer = sp.buffer,
                               !.nread = @ + n, !.forwarded = @ \o st.out],
                  H, initialized, lastInitParams, st.cache, st.out, <<>>, Quiet)

\* reader.read() rejects: the finally block runs and proxyRequest's catch takes over
SSEThrow(r, e) ==
  /\ reqs[r].pc = "sse"
  /\ ReqCatch(r, e)

\* ------------------------------------- reinitializeSession inside proxyRequest
\* the inner try of lines 253-262 fails: reinitializeSession returned false or threw
ReqReinitFailed(r) ==
  Exhaust(r, [reqs[r] EXCEPT !.lastError = ReinitFailedErr], H, ReinitFailedErr)

\* the re-init fetch returns a response that is not ok; its Mcp-Session-Id header
\* sid is not read (lines 178-181)
ReqReinitNotOk(r, sid) ==
  /\ reqs[r].pc = "reinit_fetch"
  /\ ReqReinitFailed(r)

ReqReinitOk(r, sid) ==
  /\ reqs[r].pc = "reinit_fetch"
  /\ ReqCommit(r, [reqs[r] EXCEPT !.pc = "reinit_json"], ReinitCapture(H, sid), initialized,
               lastInitParams, responseCache, <<>>, <<>>, Quiet)

\* the re-init fetch or response.json() throws
ReqReinitThrow(r) ==
  /\ reqs[r].pc \in {"reinit_fetch", "reinit_json"}
  /\ ReqReinitFailed(r)

ReqReinitJson(r, result) ==
  /\ reqs[r].pc = "reinit_json"
  /\ ReqCommit(r, [reqs[r] EXCEPT !.pc = "reinit_notif"], H, initialized, lastInitParams,
               CacheReinit(responseCache, result), <<>>,
               <<InitializedPost(spaceId, sessionId)>>, Quiet)

\* the notifications/initialized fetch settles, with a response whose Mcp-Session-Id
\* header is sid or with an error; neither is looked at: lines 195-203, 255-258
ReqReinitDone(r, sid) ==
  /\ reqs[r].pc = "reinit_notif"
  /\ Continue(r, [reqs[r] EXCEPT !.lastError = HttpErr, !.remint = env.watchSession], H, TRUE)

\* --------------------------------------------------- health-check callback
TickCommit(h, init, cache, tk, wr, po, e) ==
  Commit(h, init, lastInitParams, cache, reqs, tk, wr, po, e, TRUE)

\* one callback starts, moves on to the next await, or returns
TickStart(tk, to) == [tk EXCEPT ![to] = @ + 1]
TickMove(tk, from, to) == [tk EXCEPT ![from] = @ - 1, ![to] = @ + 1]
TickEnd(tk, from) == [tk EXCEPT ![from] = @ - 1]

\* the interval fires: lines 119-123 and 157-176
TimerFire ==
  /\ liveTimers > 0
  /\ InFlight(ticks) < env.ticks
  /\ TickCommit(ReinitBegin(H), FALSE, responseCache, TickStart(ticks, "reinit_fetch"), <<>>,
                <<ReinitPost(spaceId, lastInitParams, ReinitBegin(H).sessionId)>>, Quiet)

\* reinitializeSession returned false or threw: nothing else happens (lines 124, 130-132)
TickFailed(from) ==
  /\ ~upstreamUp
  /\ TickCommit(H, initialized, responseCache, TickEnd(ticks, from), <<>>, <<>>,
                Ev("tick_failed", IdleReq, NoErr, Null))

TickReinitNotOk(sid) ==
  /\ ticks["reinit_fetch"] > 0
  /\ TickFailed("reinit_fetch")

TickReinitOk(sid) ==
  /\ ticks["reinit_fetch"] > 0
  /\ TickCommit(ReinitCapture(H, sid), initialized, responseCache,
                TickMove(ticks, "reinit_fetch", "reinit_json"), <<>>, <<>>,
                Ev("tick_capture", IdleReq, NoErr, Null))

\* the re-init fetch or response.json() throws
TickReinitThrow(from) ==
  /\ from \in {"reinit_fetch", "reinit_json"}
  /\ ticks[from] > 0
  /\ TickFailed(from)

TickReinitJson(result) ==
  /\ ticks["reinit_json"] > 0
  /\ TickCommit(H, initialized, CacheReinit(responseCache, result),
                TickMove(ticks, "reinit_json", "reinit_notif"), <<>>,
                <<InitializedPost(spaceId, sessionId)>>, Quiet)

\* lines 124-129 after a successful re-init
TickUp(h) == stopHealthCheck([h EXCEPT !.apiHealthy = TRUE])

TickReinitDone(sid) ==
  /\ ticks["reinit_notif"] > 0
  /\ TickCommit(TickUp(H), TRUE, responseCache, TickEnd(ticks, "reinit_notif"),
                <<ToolsChanged>>, <<>>, Ev("tick_up", IdleReq, NoErr, Null))

\* ------------------------------------------------------ handleNotification
\* lines 425-442; the promise of the fetch is dropped, its response never read
HandleNotification(method) ==
  Commit(H, IF method = "notifications/initialized" THEN TRUE ELSE initialized,
         lastInitParams, responseCache, reqs, ticks, <<>>,
         <<Post(method, NoId, "none", Headers)>>, Quiet, FALSE)

\* ------------------------------------------------- start: the line handler
\* a line of stdin that is not a request: blank, not JSON, a JSON value that is not an
\* object (a number, a string, null), a JSON array, or an object without `id`
BlankLine == [kind |-> "blank", method |-> ""]
InvalidLine == [kind |-> "invalid", method |-> ""]
PrimitiveLine == [kind |-> "primitive", method |-> ""]
ArrayLine == [kind |-> "array", method |-> ""]
NotifLine(method) == [kind |-> "notification", method |-> method]

LocalLines == {NotifLine(m) : m \in env.notifications} \cup env.lines

\* nothing happens but a log line: the blank line of line 459, the catch of lines 470-474
IgnoreLine ==
  Commit(H, initialized, lastInitParams, responseCache, reqs, ticks, <<>>, <<>>, Quiet, FALSE)

\* a line handler that answers a line it cannot parse with a JSON-RPC parse error
OnLineParseError(line, forward) ==
  IF line.kind = "invalid"
  THEN Commit(H, initialized, lastInitParams, responseCache, reqs, ticks,
              <<ErrorObj(NoId, -32700, [text |-> "Parse error", reason |-> NoErr])>>, <<>>,
              Quiet, FALSE)
  ELSE IF line.kind \in {"blank", "primitive"} THEN IgnoreLine
  ELSE HandleNotification(line.method)

\* lines 458-475 for a line that is not a request (a line with `id` starts proxyRequest,
\* see StartRequest): a blank line returns at once; JSON.parse throws on a line that is
\* not JSON and `'id' in message` throws on a value that is not an object, both into
\* the catch; an array and an object without `id` go to handleNotification. forward is
\* what becomes of the POST that forwards it: the handler never learns it.
OnLine(line, forward) ==
  IF line.kind \in {"blank", "invalid", "primitive"} THEN IgnoreLine
  ELSE HandleNotification(line.method)

\* replies the upstream gives to the initialize of a re-init
ReinitReplies ==
  { ResultObj(REINIT_ID, p) : p \in Payloads }
    \cup { ErrorObj(REINIT_ID, -32601, [text |-> "upstream", reason |-> NoErr]) }

\* ------------------------------------------------------------------- Next
Next ==
  \/ \E r \in Slots, m \in env.methods, id \in ReqIds :
       \E p \in ParamsOf(m) : StartRequest(r, m, id, p)
  \/ \E r \in Slots : SleepDone(r)
  \/ \E r \in Slots, e \in env.exceptions : FetchThrow(r, e)
  \/ \E r \in Slots, sid \in SidHeaders : FetchNotOk(r, sid)
  \/ \E r \in Slots, sid \in SidHeaders, ct \in {"json", "sse"}, b \in BOOLEAN :
       FetchOk(r, sid, ct, b)
  \/ \E r \in Slots, s \in Statuses : TextReturn(r, s)
  \/ \E r \in Slots, e \in env.exceptions : TextThrow(r, e)
  \/ \E r \in Slots : \E res \in UpstreamReplies(reqs[r].id) : JsonReturn(r, res)
  \/ \E r \in Slots, e \in env.exceptions : JsonThrow(r, e)
  \/ \E r \in Slots : \E c \in Chunks(reqs[r].id) : SSERead(r, c)
  \/ \E r \in Slots : SSEDone(r)
  \/ \E r \in Slots, e \in env.exceptions : SSEThrow(r, e)
  \/ \E r \in Slots, sid \in SidHeaders : ReqReinitNotOk(r, sid)
  \/ \E r \in Slots, sid \in SidHeaders : ReqReinitOk(r, sid)
  \/ \E r \in Slots : ReqReinitThrow(r)
  \/ \E r \in Slots, res \in ReinitReplies : ReqReinitJson(r, res)
  \/ \E r \in Slots, sid \in SidHeaders : ReqReinitDone(r, sid)
  \/ TimerFire
  \/ \E sid \in SidHeaders : TickReinitNotOk(sid)
  \/ \E sid \in SidHeaders : TickReinitOk(sid)
  \/ \E from \in TickPcs : TickReinitThrow(from)
  \/ \E res \in ReinitReplies : TickReinitJson(res)
  \/ \E sid \in SidHeaders : TickReinitDone(sid)
  \/ \E l \in LocalLines, f \in env.forwards : OnLine(l, f)

\* ------------------------------------------------------------- scenarios
\* Requests, replies and the cache: one request handler at a time with every method,
\* every kind of reply and failure; one health-check callback at a time; the upstream
\* echoes the request id.
RepliesEnv ==
  [requests |-> 1, ticks |-> 1, methods |-> Methods, initParams |-> {"none"},
   exceptions |-> Exceptions, upstreamIds |-> {},
   notifications |-> {"notifications/cancelled"}, watchPosts |-> FALSE,
   watchRecovery |-> FALSE, watchFailures |-> TRUE, watchOrder |-> FALSE,
   watchReads |-> FALSE, watchSilent |-> FALSE,
   watchSession |-> FALSE, lines |-> {}, forwards |-> {"ok"}, stream |-> <<>>,
   watchAnswers |-> FALSE]

Init == InitIn(RepliesEnv, {Null})

Spec == Init /\ [][Next]_vars

\* Ids: as above for the cached methods, and the upstream may answer with an id of its
\* own instead of the request's.
IdsEnv ==
  [requests |-> 1, ticks |-> 1, methods |-> CachedMethods, initParams |-> {"none"},
   exceptions |-> {TypeErr, SyntaxErr}, upstreamIds |-> {UpstreamId},
   notifications |-> {"notifications/cancelled"}, watchPosts |-> TRUE,
   watchRecovery |-> FALSE, watchFailures |-> TRUE, watchOrder |-> FALSE,
   watchReads |-> FALSE, watchSilent |-> FALSE,
   watchSession |-> TRUE, lines |-> {}, forwards |-> {"ok"}, stream |-> <<>>,
   watchAnswers |-> FALSE]

InitIds == InitIn(IdsEnv, {Null})

SpecIds == InitIds /\ [][Next]_vars

\* Health: one request handler and MaxTicks overlapping health-check callbacks; the
\* upstream echoes the request id; recoveries are watched (rec).
HealthEnv ==
  [requests |-> 1, ticks |-> MaxTicks, methods |-> {"tools/list", "tools/call"},
   initParams |-> {"none"}, exceptions |-> {TypeErr, SyntaxErr}, upstreamIds |-> {},
   notifications |-> {"notifications/cancelled"}, watchPosts |-> FALSE,
   watchRecovery |-> TRUE, watchFailures |-> FALSE, watchOrder |-> FALSE,
   watchReads |-> FALSE, watchSilent |-> FALSE,
   watchSession |-> FALSE, lines |-> {}, forwards |-> {"ok"}, stream |-> <<>>,
   watchAnswers |-> FALSE]

InitHealth == InitIn(HealthEnv, {Null})

SpecHealth == InitHealth /\ [][Next]_vars

\* Upstream POSTs: with and without spaceId, the POSTs of every step are recorded.
PostsEnv ==
  [requests |-> 1, ticks |-> 1, methods |-> {"initialize", "tools/call"},
   initParams |-> {"pA"}, exceptions |-> {TypeErr, SyntaxErr}, upstreamIds |-> {},
   notifications |-> NotifMethods, watchPosts |-> TRUE, watchRecovery |-> FALSE,
   watchFailures |-> FALSE, watchOrder |-> FALSE,
   watchReads |-> FALSE, watchSilent |-> FALSE,
   watchSession |-> FALSE, lines |-> {}, forwards |-> {"ok"}, stream |-> <<>>,
   watchAnswers |-> FALSE]

InitPosts == InitIn(PostsEnv, SpaceIds)

SpecPosts == InitPosts /\ [][Next]_vars

\* Streams: replies that are SSE streams whose objects carry the request id, another
\* id or none; the order of the writes of a request is watched (back).
StreamEnv ==
  [requests |-> 1, ticks |-> 1, methods |-> {"tools/list", "tools/call"},
   initParams |-> {"none"}, exceptions |-> {TypeErr}, upstreamIds |-> {},
   notifications |-> {"notifications/cancelled"}, watchPosts |-> FALSE,
   watchRecovery |-> FALSE, watchFailures |-> FALSE, watchOrder |-> TRUE,
   watchReads |-> FALSE, watchSilent |-> FALSE,
   watchSession |-> FALSE, lines |-> {}, forwards |-> {"ok"}, stream |-> <<>>,
   watchAnswers |-> FALSE]

InitStream == InitIn(StreamEnv, {Null})

SpecStream == InitStream /\ [][Next]_vars

\* Foreign ids: replies and streams whose objects may carry an id that is not the
\* request's.
ForeignEnv ==
  [requests |-> 1, ticks |-> 1, methods |-> {"tools/call"},
   initParams |-> {"none"}, exceptions |-> {TypeErr}, upstreamIds |-> {UpstreamId},
   notifications |-> {"notifications/cancelled"}, watchPosts |-> FALSE,
   watchRecovery |-> FALSE, watchFailures |-> FALSE, watchOrder |-> FALSE,
   watchReads |-> TRUE, watchSilent |-> FALSE,
   watchSession |-> FALSE, lines |-> {}, forwards |-> {"ok"}, stream |-> <<>>,
   watchAnswers |-> FALSE]

InitForeign == InitIn(ForeignEnv, {Null})

SpecForeign == InitForeign /\ [][Next]_vars

\* Silent recovery: outages that a request ends while a health check is still running.
SilentEnv ==
  [requests |-> 1, ticks |-> 1, methods |-> {"tools/list", "tools/call"},
   initParams |-> {"none"}, exceptions |-> {TypeErr, SyntaxErr}, upstreamIds |-> {},
   notifications |-> {"notifications/cancelled"}, watchPosts |-> FALSE,
   watchRecovery |-> FALSE, watchFailures |-> FALSE, watchOrder |-> FALSE,
   watchReads |-> FALSE, watchSilent |-> TRUE,
   watchSession |-> FALSE, lines |-> {}, forwards |-> {"ok"}, stream |-> <<>>,
   watchAnswers |-> FALSE]

InitSilent == InitIn(SilentEnv, {Null})

SpecSilent == InitSilent /\ [][Next]_vars

\* Sessions: the POSTs are recorded, and so are the re-init an attempt follows and the
\* session id a transient exception lost.
SessionEnv ==
  [requests |-> 1, ticks |-> 1, methods |-> {"initialize", "tools/call"},
   initParams |-> {"pA"}, exceptions |-> {TypeErr, SyntaxErr}, upstreamIds |-> {},
   notifications |-> {"notifications/cancelled"}, watchPosts |-> TRUE,
   watchRecovery |-> FALSE, watchFailures |-> FALSE, watchOrder |-> FALSE,
   watchReads |-> FALSE, watchSilent |-> FALSE,
   watchSession |-> TRUE, lines |-> {}, forwards |-> {"ok"}, stream |-> <<>>,
   watchAnswers |-> FALSE]

InitSession == InitIn(SessionEnv, {Null})

SpecSession == InitSession /\ [][Next]_vars

\* Lines: every kind of line that is not a request, and notifications whose forwarding
\* fails; the POSTs are recorded.
LinesEnv ==
  [requests |-> 1, ticks |-> 1, methods |-> {"tools/call"},
   initParams |-> {"none"}, exceptions |-> {TypeErr}, upstreamIds |-> {},
   notifications |-> NotifMethods, watchPosts |-> TRUE,
   watchRecovery |-> FALSE, watchFailures |-> FALSE, watchOrder |-> FALSE,
   watchReads |-> FALSE, watchSilent |-> FALSE,
   watchSession |-> FALSE,
   lines |-> {BlankLine, InvalidLine, PrimitiveLine, ArrayLine},
   forwards |-> {"ok", "rejects"}, stream |-> <<>>,
   watchAnswers |-> FALSE]

InitLines == InitIn(LinesEnv, {Null})

SpecLines == InitLines /\ [][Next]_vars

\* Bodies: every reply is an SSE stream with a body of up to MaxBodyLines lines of
\* text, the last one with or without a line feed, which arrives in chunks of up to
\* MaxChunkChars characters cut anywhere.
BodyLines ==
  { <<"data:", " ", "{", "A", "}">>, <<"data:", " ", "{", "B", "}">>,
    <<"data:", " ", "{", " ", "B", "}", " ">>, <<"data:", " ", "[DONE]">>,
    <<"data:", "{", "A", "}">>, <<"data:", " ", "{", "A">>, <<"A">>, <<>> }

RECURSIVE JoinLines(_)
JoinLines(ls) ==
  IF ls = <<>> THEN <<>>
  ELSE IF Len(ls) = 1 THEN ls[1]
  ELSE ls[1] \o <<"\n">> \o JoinLines(Tail(ls))

Bodies ==
  { JoinLines(ls) \o end :
      ls \in UNION { [1..n -> BodyLines] : n \in 1..MaxBodyLines },
      end \in {<<>>, <<"\n">>} }

BodyEnv ==
  [requests |-> 1, ticks |-> 1, methods |-> {"tools/call"},
   initParams |-> {"none"}, exceptions |-> {TypeErr}, upstreamIds |-> {},
   notifications |-> {"notifications/cancelled"}, watchPosts |-> FALSE,
   watchRecovery |-> FALSE, watchFailures |-> FALSE, watchOrder |-> FALSE,
   watchReads |-> FALSE, watchSilent |-> FALSE,
   watchSession |-> FALSE, lines |-> {}, forwards |-> {"ok"}, stream |-> <<>>,
   watchAnswers |-> FALSE]

InitBody == \E b \in Bodies : InitIn([BodyEnv EXCEPT !.stream = b], {Null})

\* the stream ends when the whole body has arrived
StreamDone(r) ==
  /\ reqs[r].nread = Len(env.stream)
  /\ SSEDone(r)

NextBody ==
  \/ \E r \in Slots, m \in env.methods, id \in ReqIds :
       \E p \in ParamsOf(m) : StartRequest(r, m, id, p)
  \/ \E r \in Slots, sid \in SidHeaders : FetchOk(r, sid, "sse", TRUE)
  \/ \E r \in Slots, n \in 1..MaxChunkChars : SSEReadText(r, n)
  \/ \E r \in Slots : StreamDone(r)

SpecBody == InitBody /\ [][NextBody]_vars

\* Answers: every method, every kind of reply, thrown errors that are retried and that
\* are not; the response objects each request handler writes are tallied.
AnswersEnv ==
  [requests |-> 1, ticks |-> 1, methods |-> Methods, initParams |-> {"none"},
   exceptions |-> {TypeErr, SyntaxErr}, upstreamIds |-> {},
   notifications |-> {"notifications/cancelled"}, watchPosts |-> FALSE,
   watchRecovery |-> FALSE, watchFailures |-> FALSE, watchOrder |-> FALSE,
   watchReads |-> FALSE, watchSilent |-> FALSE,
   watchSession |-> FALSE, lines |-> {}, forwards |-> {"ok"}, stream |-> <<>>,
   watchAnswers |-> TRUE]

InitAnswers == InitIn(AnswersEnv, {Null})

SpecAnswers == InitAnswers /\ [][Next]_vars

\* Stopping: stop() may be called, and the upstream may become reliable for re-inits.
StopEnv ==
  [requests |-> 1, ticks |-> 1, methods |-> {"tools/call"},
   initParams |-> {"none"}, exceptions |-> {TypeErr, SyntaxErr}, upstreamIds |-> {},
   notifications |-> {"notifications/cancelled"}, watchPosts |-> FALSE,
   watchRecovery |-> FALSE, watchFailures |-> FALSE, watchOrder |-> FALSE,
   watchReads |-> FALSE, watchSilent |-> FALSE,
   watchSession |-> FALSE, lines |-> {}, forwards |-> {"ok"}, stream |-> <<>>,
   watchAnswers |-> FALSE]

InitStop == InitIn(StopEnv, {Null})

\* lines 496-502: the timer is cleared; closing the readline interface emits 'close',
\* whose handler (477-480) exits the process, so nothing runs afterwards
Stop ==
  /\ ~stopped
  /\ stopped' = TRUE
  /\ healthCheckTimer' = stopHealthCheck(H).healthCheckTimer
  /\ liveTimers' = stopHealthCheck(H).liveTimers
  /\ written' = <<>> /\ posts' = <<>> /\ ev' = Quiet
  /\ UNCHANGED <<env, spaceId, sessionId, initialized, lastInitParams, responseCache,
                 apiHealthy, reqs, ticks, rec, silent, upstreamUp>>

\* from now on the upstream answers the initialize of every re-init with HTTP-ok and
\* a body that parses
UpstreamRecovers ==
  /\ ~stopped /\ ~upstreamUp
  /\ upstreamUp' = TRUE
  /\ written' = <<>> /\ posts' = <<>> /\ ev' = Quiet
  /\ UNCHANGED <<env, spaceId, sessionId, initialized, lastInitParams, responseCache,
                 apiHealthy, healthCheckTimer, liveTimers, reqs, ticks, rec, silent,
                 stopped>>

NextStop == Next \/ Stop \/ UpstreamRecovers

\* the await a health-check callback is waiting at settles
TickSettles ==
  \/ \E sid \in SidHeaders : TickReinitNotOk(sid) \/ TickReinitOk(sid) \/ TickReinitDone(sid)
  \/ \E from \in TickPcs : TickReinitThrow(from)
  \/ \E res \in ReinitReplies : TickReinitJson(res)

\* the interval timer fires while it is active, and every await of a callback settles
SpecStop ==
  /\ InitStop /\ [][NextStop]_vars
  /\ WF_vars(TimerFire)
  /\ WF_vars(TickSettles)

\* Progress: the scenario of the liveness check.  Every pending upstream call of a
\* request returns or throws, every backoff sleep ends, and every stream ends or fails
\* (it cannot deliver chunks for ever).
LiveEnv ==
  [requests |-> 1, ticks |-> 1, methods |-> {"tools/list", "tools/call"},
   initParams |-> {"none"}, exceptions |-> {TypeErr, SyntaxErr}, upstreamIds |-> {},
   notifications |-> {"notifications/cancelled"}, watchPosts |-> FALSE,
   watchRecovery |-> FALSE, watchFailures |-> FALSE, watchOrder |-> FALSE,
   watchReads |-> FALSE, watchSilent |-> FALSE,
   watchSession |-> FALSE, lines |-> {}, forwards |-> {"ok"}, stream |-> <<>>,
   watchAnswers |-> FALSE]

InitLive == InitIn(LiveEnv, {Null})

\* the step of request handler r that its pending await allows, a further chunk of
\* its stream excepted
ReqProgress(r) ==
  \/ SleepDone(r)
  \/ \E e \in env.exceptions :
       FetchThrow(r, e) \/ TextThrow(r, e) \/ JsonThrow(r, e) \/ SSEThrow(r, e)
  \/ \E sid \in SidHeaders :
       \/ FetchNotOk(r, sid)
       \/ \E ct \in {"json", "sse"}, b \in BOOLEAN : FetchOk(r, sid, ct, b)
       \/ ReqReinitNotOk(r, sid) \/ ReqReinitOk(r, sid) \/ ReqReinitDone(r, sid)
  \/ \E s \in Statuses : TextReturn(r, s)
  \/ \E res \in UpstreamReplies(reqs[r].id) : JsonReturn(r, res)
  \/ SSEDone(r)
  \/ ReqReinitThrow(r)
  \/ \E res \in ReinitReplies : ReqReinitJson(r, res)

SpecLive == InitLive /\ [][Next]_vars /\ \A r \in 1..LiveEnv.requests : WF_vars(ReqProgress(r))

\* ------------------------------------------------------------ properties
Ended == ev.end \in {"reply", "exhaust", "no_body", "sse_end"}

IsResponse(obj) == obj.kind \in {"result", "error"}

\* C1: every terminal response written for a request carries the request's id,
\* whatever id the upstream put in its reply.
C1_IdPassthrough ==
  Ended => \A i \in 1..Len(written) : IsResponse(written[i]) => written[i].id = ev.req.id

\* C2: a tools/list request is never answered with an object carrying an error member.
C2_ToolsListNeverError ==
  (Ended /\ ev.req.method = "tools/list") =>
     \A i \in 1..Len(written) : written[i].kind # "error"

\* C3: while the cache holds a successful response for initialize (tools/list), a request
\* with that method is not answered with an error response.
C3_NoErrorWhileCached ==
  (Ended /\ ev.req.method \in DOMAIN responseCache) =>
     \A i \in 1..Len(written) : written[i].kind # "error"

FailureStep ==
  \/ ev'.end = "exhaust"
  \/ ev'.end = "sse_end" /\ written' # <<>>
  \/ ev'.end = "no_body"
  \/ \E r \in Slots : reqs'[r].attempt > reqs[r].attempt
  \/ apiHealthy /\ ~apiHealthy'
  \/ ev'.end = "tick_failed"

C9_CacheMonotone ==
  [][ /\ DOMAIN responseCache' \subseteq {"initialize", "tools/list"}
      /\ DOMAIN responseCache \subseteq DOMAIN responseCache'
      /\ \A k \in DOMAIN responseCache' :
           (k \notin DOMAIN responseCache \/ responseCache'[k] # responseCache[k])
             => (responseCache'[k].kind = "result" /\ ~FailureStep)
      /\ FailureStep => responseCache' = responseCache ]_vars

C9_Witness ==
  /\ ev.end = "exhaust"
  /\ ~apiHealthy
  /\ DOMAIN responseCache = {"initialize", "tools/list"}

\* C10: a request is POSTed at most 4 times, the sleep before the k-th retry is
\* 1000 * 2^(k-1) ms, and there is no sleep before the first attempt.
BackoffOk(q) ==
  /\ q.nposts <= 4
  /\ Len(q.sleeps) <= 3
  /\ \A k \in 1..Len(q.sleeps) : q.sleeps[k] = 1000 * 2^(k - 1)
  /\ q.pc = "sleep" => q.nposts = Len(q.sleeps)
  /\ q.pc \notin {"sleep", "idle"} => q.nposts = Len(q.sleeps) + 1

C10_Backoff ==
  /\ \A r \in Slots : BackoffOk(reqs[r])
  /\ ev.end = "exhaust" => BackoffOk([ev.req EXCEPT !.pc = "fetch"])

C10_Witness ==
  \E r \in Slots : reqs[r].nposts = 4 /\ reqs[r].sleeps = <<1000, 2000, 4000>>


\* C5 (as claimed): whenever healthy = false, sessionId = null.
C5_DownImpliesNoSession == ~apiHealthy => sessionId = Null

\* a step that reads the Mcp-Session-Id header of a response
CaptureStep ==
  \/ \E r \in Slots : reqs[r].pc = "fetch" /\ reqs'[r].pc # "fetch"
  \/ \E r \in Slots : reqs[r].pc = "reinit_fetch" /\ reqs'[r].pc = "reinit_json"
  \/ ev'.end = "tick_capture"

\* C5 (amended): the step that takes healthy from true to false leaves sessionId null,
\* and while healthy stays false sessionId changes from null only by a step that
\* captures the session id of an upstream response.
C5_DownClearsSession ==
  [][ /\ (apiHealthy /\ ~apiHealthy') => sessionId' = Null
      /\ (~apiHealthy /\ ~apiHealthy' /\ sessionId = Null /\ sessionId' # Null) => CaptureStep
    ]_vars

C5_Witness ==
  /\ ev.end = "exhaust" /\ ev.sid # Null
  /\ ~apiHealthy /\ sessionId = Null /\ healthCheckTimer

\* C6: at most one health-check timer exists, and one exists only while healthy = false.
C6_OneProber ==
  /\ liveTimers <= 1
  /\ liveTimers > 0 => ~apiHealthy
  /\ healthCheckTimer => ~apiHealthy
  /\ healthCheckTimer <=> liveTimers = 1

\* a request is given up while a health-check callback is in flight: the API is marked
\* down with a timer already running or with a callback of an earlier outage pending
C6_Witness ==
  /\ ev.end = "exhaust"
  /\ InFlight(ticks) > 0
  /\ ~apiHealthy /\ healthCheckTimer /\ liveTimers = 1

\* C7: a recovery brought about by a tick's re-mint writes exactly one
\* notifications/tools/list_changed, and leaves healthy = true with no timer.
C7_OneNotifyPerRecovery ==
  /\ rec <= 1
  /\ ev.end = "tick_up" =>
       (apiHealthy /\ ~healthCheckTimer /\ written = <<ToolsChanged>>)

\* C8: every upstream POST carries Authorization and Content-Type, Current-Space-Id iff
\* spaceId is set, and Mcp-Session-Id iff sessionId is non-null when it is issued.
C8_HeaderCompleteness ==
  \A i \in 1..Len(posts) :
    LET hd == posts[i].headers
    IN /\ hd.Authorization = <<"Bearer", "token">>
       /\ hd.ContentType = "application/json"
       /\ (hd.CurrentSpaceId # Null) <=> (spaceId # Null)
       /\ hd.CurrentSpaceId # Null => hd.CurrentSpaceId = spaceId
       /\ (hd.McpSessionId # Null) <=> (sessionId # Null)
       /\ hd.McpSessionId # Null => hd.McpSessionId = sessionId

C8_Witness ==
  /\ spaceId = "space"
  /\ \E r \in Slots : reqs[r].pc = "reinit_notif"
  /\ Len(posts) = 1
  /\ posts[1].method = "notifications/initialized"
  /\ posts[1].headers.McpSessionId = "s1"
  /\ posts[1].headers.CurrentSpaceId = "space"

\* the POSTs and the way of a re-init made for a stale session (status 400 or 404 with
\* attempts left): initialize, then notifications/initialized, then the sleep and the
\* request again; a re-init that fails ends the request
RemintOrder(r) ==
  /\ \A s \in {400, 404} :
       (TextReturn(r, s) /\ reqs[r].attempt < 3) =>
          /\ reqs'[r].pc = "reinit_fetch"
          /\ Len(posts') = 1
          /\ posts'[1].method = "initialize" /\ posts'[1].id # reqs[r].id
  /\ (reqs[r].pc = "reinit_fetch" /\ reqs'[r].pc # "reinit_fetch") =>
       \/ reqs'[r].pc = "reinit_json" /\ posts' = <<>>
       \/ reqs'[r].pc = "idle" /\ ev'.end = "exhaust" /\ posts' = <<>>
  /\ (reqs[r].pc = "reinit_json" /\ reqs'[r].pc # "reinit_json") =>
       \/ /\ reqs'[r].pc = "reinit_notif"
          /\ Len(posts') = 1 /\ posts'[1].method = "notifications/initialized"
       \/ reqs'[r].pc = "idle" /\ ev'.end = "exhaust" /\ posts' = <<>>
  /\ (reqs[r].pc = "reinit_notif" /\ reqs'[r].pc # "reinit_notif") =>
       /\ reqs'[r].pc = "sleep" /\ reqs'[r].remint /\ posts' = <<>>
       /\ reqs'[r].attempt = reqs[r].attempt + 1
  /\ (reqs[r].pc = "sleep" /\ reqs'[r].pc # "sleep") =>
       /\ reqs'[r].pc = "fetch" /\ reqs'[r].remint = reqs[r].remint
       /\ Len(posts') = 1
       /\ posts'[1].method = reqs[r].method /\ posts'[1].id = reqs[r].id
       /\ posts'[1].params = reqs[r].params

\* the part of C11 about the POSTs: holds (SpecPosts)
C11_RemintOrder == [][\A r \in Slots : RemintOrder(r)]_vars

\* C11: a 400/404 with attempts left is followed by one re-init (initialize, then
\* notifications/initialized) and the request again; a failed re-init ends the request;
\* and if the retry gets a 200 JSON reply the local peer sees exactly one response, with
\* the id of the request.
C11_StaleSession ==
  [][\A r \in Slots :
       /\ RemintOrder(r)
       /\ (ev'.end = "reply" /\ ev'.req.remint) =>
            /\ Len(written') = 1
            /\ IsResponse(written'[1])
            /\ written'[1].id = ev'.req.id]_vars

\* a transient exception is caught by request handler r
TransientCatch(r) ==
  \E e \in env.exceptions :
     /\ isTransientError(e)
     /\ FetchThrow(r, e) \/ TextThrow(r, e) \/ JsonThrow(r, e) \/ SSEThrow(r, e)

\* a re-init starts
RemintBegin ==
  \/ \E r \in Slots : reqs[r].pc = "text" /\ reqs'[r].pc = "reinit_fetch"
  \/ ticks'["reinit_fetch"] > ticks["reinit_fetch"]

\* C12 (as claimed): a response of any kind that carries Mcp-Session-Id X makes
\* sessionId X.
C12_AnyResponseCaptured ==
  [][\A sid \in SessionIds :
       /\ \A r \in Slots :
            (\/ FetchNotOk(r, sid)
             \/ \E ct \in {"json", "sse"}, b \in BOOLEAN : FetchOk(r, sid, ct, b)
             \/ ReqReinitOk(r, sid) \/ ReqReinitNotOk(r, sid) \/ ReqReinitDone(r, sid))
              => sessionId' = sid
       /\ (TickReinitOk(sid) \/ TickReinitNotOk(sid) \/ TickReinitDone(sid))
              => sessionId' = sid]_vars

\* C12 (amended): the Mcp-Session-Id of a response to a request attempt (ok or not) and
\* of an ok response to the initialize of a re-init becomes sessionId; a non-ok response
\* to that initialize, the response to its notifications/initialized and the response to
\* a forwarded notification set nothing; every POST carries sessionId as it is when the
\* POST is issued; and sessionId is cleared only by a caught transient exception, by the
\* start of a re-init and by marking the API down.
C12_SessionCapture ==
  [][/\ \A sid \in SessionIds :
          /\ \A r \in Slots :
               (\/ FetchNotOk(r, sid)
                \/ \E ct \in {"json", "sse"}, b \in BOOLEAN : FetchOk(r, sid, ct, b)
                \/ ReqReinitOk(r, sid))
                 => sessionId' = sid
          /\ TickReinitOk(sid) => sessionId' = sid
     /\ \A sid \in SidHeaders :
          (\/ \E r \in Slots : ReqReinitNotOk(r, sid) \/ ReqReinitDone(r, sid)
           \/ TickReinitNotOk(sid) \/ TickReinitDone(sid)
           \/ \E m \in env.notifications : HandleNotification(m))
            => sessionId' \in {sessionId, Null}
     /\ \A i \in 1..Len(posts') : posts'[i].headers.McpSessionId = sessionId'
     /\ (sessionId # Null /\ sessionId' = Null) =>
          \/ \E r \in Slots : TransientCatch(r)
          \/ RemintBegin
          \/ apiHealthy /\ ~apiHealthy']_vars

\* a retry is POSTed with the session id captured from a response
C12_Witness ==
  \E r \in Slots :
     /\ reqs[r].pc = "fetch" /\ reqs[r].attempt > 0
     /\ Len(posts) = 1 /\ posts[1].id = reqs[r].id
     /\ posts[1].headers.McpSessionId = "s1"

\* request handler r forwards the objects of one chunk of its stream (a step of a
\* health-check callback changes ticks, a notification writes nothing)
Forwards(r) ==
  /\ reqs[r].pc = "sse" /\ reqs'[r].pc = "sse"
  /\ written' # <<>> /\ ticks' = ticks

\* the stream of request handler r ends
StreamEnds(r) == reqs[r].pc = "sse" /\ reqs'[r].pc = "idle" /\ ev'.end = "sse_end"

\* C13 (as claimed): every object forwarded from the stream of a request is written
\* before the "API is back" action of that request and before its terminal error.
C13_ForwardsBeforeBack ==
  [][\A r \in Slots :
       /\ Forwards(r) => ~reqs[r].back
       /\ (reqs[r].pc = "sse" /\ reqs'[r].pc # "sse" /\ written' # <<>>) =>
            (reqs'[r].pc = "idle" /\ ev'.end \in {"sse_end", "exhaust"})
       /\ StreamEnds(r) => written' \in {<<>>, <<NoValidResponseError(reqs[r].id)>>}]_vars

\* C13 (amended): the "API is back" action of a request answered by a stream is taken
\* when the ok response arrives, before anything is read from the stream, so its
\* notifications/tools/list_changed precedes every forwarded object; reading the stream
\* never changes healthy; the terminal error comes after every forwarded object.
C13_BackBeforeForwards ==
  [][\A r \in Slots :
       /\ (reqs[r].pc = "fetch" /\ reqs'[r].pc = "sse" /\ ~apiHealthy) =>
            /\ apiHealthy' /\ ~healthCheckTimer' /\ reqs'[r].back
            /\ written' = (IF reqs[r].method = "tools/list" THEN <<>>
                            ELSE <<[kind |-> "notification", id |-> NoId,
                                    body |-> "notifications/tools/list_changed",
                                    code |-> 0, message |-> NoMessage]>>)
       /\ (reqs[r].pc = "fetch" /\ reqs'[r].pc = "sse" /\ apiHealthy) =>
            written' = <<>> /\ ~reqs'[r].back
       /\ (Forwards(r) \/ StreamEnds(r)) =>
            /\ apiHealthy' = apiHealthy
            /\ healthCheckTimer' = healthCheckTimer
       /\ (reqs[r].pc = "sse" /\ reqs'[r].pc # "sse" /\ written' # <<>>) =>
            (reqs'[r].pc = "idle" /\ ev'.end \in {"sse_end", "exhaust"})
       /\ StreamEnds(r) => written' \in {<<>>, <<NoValidResponseError(reqs[r].id)>>}]_vars

\* the response of a stream is forwarded after the request's "API is back" action
C13_Witness ==
  \E r \in Slots :
     /\ reqs[r].pc = "sse" /\ reqs[r].back /\ reqs[r].responseSent
     /\ Len(written) = 1 /\ written[1].kind = "result" /\ written[1].id = reqs[r].id

\* the handler that ended in the last step has written a response for its request
Answered ==
  \/ \E i \in 1..Len(written) : IsResponse(written[i])
  \/ ev.end = "sse_end" /\ ev.req.responseSent

\* C14: a request handler that has started ends, and when it ends it has written a
\* response for its request; no exception leaves it.
C14_EveryRequestAnswered ==
  /\ [](Ended => Answered)
  /\ \A r \in 1..LiveEnv.requests : (reqs[r].pc # "idle") ~> (reqs[r].pc = "idle")

\* a request whose reply could not be parsed is answered all the same
C14_Witness ==
  /\ ev.end = "exhaust" /\ ev.cause.msg = <<"unexpected", "token">>
  /\ Len(written) = 1 /\ IsResponse(written[1]) /\ written[1].id = ev.req.id

\* a line of a stream that holds a JSON object
IsParsed(line) == line.kind # "junk"

C16_DownOnlyAfterAllAttempts ==
  ev.end = "exhaust" => ev.req.attempt = MAX_RETRIES /\ ev.req.nposts = MAX_RETRIES + 1

\* 4xx statuses other than 400, 404 and 429
FatalStatuses == {s \in Statuses : s >= 400 /\ s <= 499 /\ s \notin {400, 404, 429}}

\* the request ends at this step, at the attempt under way: no retry, no backoff sleep,
\* no re-mint
EndsAtOnce(r) ==
  /\ reqs'[r].pc = "idle" /\ ev'.end = "exhaust"
  /\ ev'.req.attempt = reqs[r].attempt /\ ev'.req.sleeps = reqs[r].sleeps
  /\ ev'.req.nposts = reqs[r].nposts
  /\ initialized' = initialized

OkReply(r) ==
  /\ reqs[r].pc = "fetch"
  /\ reqs'[r].pc \in {"json", "sse"} \/ ev'.end = "no_body"

\* C18, the step of the request: an HTTP-ok reply that finds the API down marks it
\* healthy, stops the prober and writes notifications/tools/list_changed first, unless
\* the method is tools/list, in which case the step writes no such notification.
C18_RequestMarksBack ==
  [][\A r \in Slots :
       (OkReply(r) /\ ~apiHealthy) =>
          /\ apiHealthy' /\ ~healthCheckTimer' /\ liveTimers' = 0
          /\ CountChanged(written') = IF reqs[r].method = "tools/list" THEN 0 ELSE 1
          /\ reqs[r].method # "tools/list" => written'[1] = ToolsChanged]_vars

\* C18: while the API is healthy thanks to a tools/list request that recovered it, no
\* notifications/tools/list_changed is written.
C18_ListRecoveryIsSilent ==
  silent => \A i \in 1..Len(written) : written[i] # ToolsChanged

\* an await of an attempt of request r throws e
AttemptThrows(r, e) ==
  /\ reqs[r].pc \in {"fetch", "text", "json", "sse"}
  /\ reqs'[r].pc = "sleep" \/ ev'.end = "exhaust"
  /\ FetchThrow(r, e) \/ TextThrow(r, e) \/ JsonThrow(r, e) \/ SSEThrow(r, e)

\* request r has just issued a retry that follows a transient exception thrown while
\* the session id was lostSid
RetriedAfterLoss(r) ==
  /\ reqs[r].pc = "fetch" /\ reqs[r].lostSid # Null
  /\ posts # <<>> /\ posts[1].method = reqs[r].method /\ posts[1].id = reqs[r].id

\* C19 as stated: the retry that follows a transient exception is sent without the
\* session id that was current when the failed attempt threw.
C19_RetryWithoutLostSession ==
  \A r \in Slots : RetriedAfterLoss(r) => posts[1].headers.McpSessionId # reqs[r].lostSid

\* C19, amended: the catch of a transient exception leaves sessionId null at once, and
\* the request sleeps and retries if attempts are left; the retry carries the session
\* id that is current when it is issued (none unless another handler captured one
\* during the backoff sleep); a non-transient exception ends the request at the
\* attempt under way.
C19_TransientClearsSession ==
  [][\A r \in Slots :
       /\ \A e \in env.exceptions :
            AttemptThrows(r, e) =>
              IF isTransientError(e)
              THEN /\ sessionId' = Null
                   /\ IF reqs[r].attempt < MAX_RETRIES
                      THEN reqs'[r].pc = "sleep" /\ reqs'[r].attempt = reqs[r].attempt + 1
                      ELSE reqs'[r].pc = "idle" /\ ev'.end = "exhaust"
              ELSE /\ reqs'[r].pc = "idle" /\ ev'.end = "exhaust"
                   /\ ev'.req.attempt = reqs[r].attempt /\ posts' = <<>>
       /\ (reqs[r].pc = "sleep" /\ reqs'[r].pc = "fetch") =>
            /\ sessionId' = sessionId
            /\ posts' = <<Post(reqs[r].method, reqs[r].id, reqs[r].params,
                               getHeaders(API_KEY, spaceId, sessionId))>>]_vars

\* a retry has been sent without session id after a transient exception lost one
C19_Witness ==
  \E r \in Slots :
     /\ RetriedAfterLoss(r) /\ reqs[r].nposts = 2
     /\ sessionId = Null /\ posts[1].headers.McpSessionId = Null

\* a call of reinitializeSession, by a request or by a health check, has just ended
\* without reporting success / with success
RemintFailed ==
  \/ ev.end = "tick_failed"
  \/ ev.end = "exhaust" /\ ev.req.pc \in {"reinit_fetch", "reinit_json"}

RemintFails ==
  \/ ev'.end = "tick_failed"
  \/ ev'.end = "exhaust" /\ ev'.req.pc \in {"reinit_fetch", "reinit_json"}

RemintSucceeds ==
  \/ ev'.end = "tick_up"
  \/ \E r \in Slots : reqs[r].pc = "reinit_notif" /\ reqs'[r].pc = "sleep"

\* the ok reply to the initialize POST of a re-init arrives with header sid
RemintReply(sid) ==
  \/ TickReinitOk(sid)
  \/ \E r \in Slots : ReqReinitOk(r, sid)

\* response.json() of a re-init returns
RemintRead ==
  \/ ticks'["reinit_notif"] > ticks["reinit_notif"]
  \/ \E r \in Slots : reqs[r].pc = "reinit_json" /\ reqs'[r].pc = "reinit_notif"

\* C20 as stated, the failure part: a re-init that has not reported success leaves
\* sessionId = null and initialized = false.
C20_FailureLeavesNothing ==
  RemintFailed => sessionId = Null /\ ~initialized

\* C20, amended: a re-init clears sessionId and initialized and POSTs initialize without
\* session id; an ok reply sets sessionId to the id the reply carries, if it carries
\* one; reading the body changes the cache only, by an initialize entry; success is
\* reported only after the ok reply was read, and the step that reports it sets
\* initialized; a failure (non-ok status, exception) is reported by a step that
\* changes none of initialized and the cache and leaves sessionId as it is (or null,
\* when the request that called the re-init marks the API down): the id captured from
\* an ok reply stays when reading that reply throws.
C20_RemintOutcome ==
  [][/\ RemintBegin =>
          /\ sessionId' = Null /\ ~initialized'
          /\ posts' = <<ReinitPost(spaceId, lastInitParams, Null)>>
     /\ \A sid \in SidHeaders :
          RemintReply(sid) =>
            /\ sessionId' = IF sid # Null THEN sid ELSE sessionId
            /\ initialized' = initialized /\ responseCache' = responseCache
     /\ RemintRead =>
          /\ sessionId' = sessionId /\ initialized' = initialized
          /\ \A m \in DOMAIN responseCache' :
               m = "initialize" \/ (m \in DOMAIN responseCache /\ responseCache'[m] = responseCache[m])
     /\ RemintSucceeds =>
          /\ initialized' /\ sessionId' = sessionId /\ responseCache' = responseCache
     /\ RemintFails =>
          /\ initialized' = initialized /\ responseCache' = responseCache
          /\ sessionId' = sessionId \/ (ev'.end = "exhaust" /\ sessionId' = Null)
     /\ \A r \in Slots :
          /\ reqs'[r].pc = "reinit_notif" => reqs[r].pc \in {"reinit_json", "reinit_notif"}
          /\ reqs'[r].pc = "reinit_json" => reqs[r].pc \in {"reinit_fetch", "reinit_json"}
     /\ \A pc \in {"reinit_json", "reinit_notif"} :
          ticks'[pc] > ticks[pc] =>
            ticks'[IF pc = "reinit_json" THEN "reinit_fetch" ELSE "reinit_json"] <
              ticks[IF pc = "reinit_json" THEN "reinit_fetch" ELSE "reinit_json"]]_vars

\* a health check's re-init failed while reading an ok reply, and the session id that
\* reply carried is kept
C20_Witness ==
  /\ ev.end = "tick_failed" /\ InFlight(ticks) = 0
  /\ sessionId # Null /\ ~initialized /\ ~apiHealthy

\* C21: a line that is not a request (blank, not JSON, not an object, or without `id`)
\* writes nothing downstream and changes nothing of the proxy but initialized, which a
\* notifications/initialized sets; requests and health checks under way are not
\* touched; this holds whether the forwarding POST succeeds or fails, and only
\* notifications (and arrays) are forwarded, with the current headers.
C21_OnlyRequestsAnswered ==
  [][\A l \in LocalLines, f \in env.forwards :
       OnLine(l, f) =>
         /\ written' = <<>>
         /\ sessionId' = sessionId /\ responseCache' = responseCache
         /\ apiHealthy' = apiHealthy /\ healthCheckTimer' = healthCheckTimer
         /\ liveTimers' = liveTimers /\ lastInitParams' = lastInitParams
         /\ reqs' = reqs /\ ticks' = ticks
         /\ initialized' = (initialized \/ l = NotifLine("notifications/initialized"))
         /\ posts' = IF l.kind \in {"notification", "array"}
                     THEN <<Post(l.method, NoId, "none",
                                 getHeaders(API_KEY, spaceId, sessionId))>>
                     ELSE <<>>]_vars

\* a notifications/initialized was handled while the API was down with a request under
\* way: it was forwarded, initialized is set, nothing was written
C21_Witness ==
  /\ posts = <<Post("notifications/initialized", NoId, "none", getHeaders(API_KEY, spaceId, sessionId))>>
  /\ initialized /\ written = <<>> /\ ~apiHealthy /\ healthCheckTimer
  /\ \E r \in Slots : reqs[r].pc = "fetch"

\* the objects of the data lines among lines, in order
ObjectsOf(lines, requestId) == SelectSeq(ParseLines(lines, requestId), IsParsed)

\* C22: when a stream has ended, the objects it has forwarded are the objects of the
\* data lines of its body, each once and in order, the last line of the body
\* included, however the body was cut into chunks.
C22_ChunkIndependence ==
  ev.end = "sse_end" =>
    ev.req.forwarded =
      ObjectsOf(SplitLinesFlush(env.stream, <<>>, <<>>).lines, ev.req.id)

\* C22 for the lines that end with a line feed: when a stream has ended, the objects
\* it has forwarded are the objects of the data lines of its body that are followed
\* by a line feed, each once and in order, however the body was cut into chunks.
C22_CompleteLinesForwarded ==
  ev.end = "sse_end" =>
    ev.req.forwarded = ObjectsOf(SplitLines(env.stream, <<>>, <<>>).lines, ev.req.id)

\* C23: until stop() is called the API is down exactly when the prober timer is active,
\* and once the upstream answers re-inits with HTTP-ok and a body that parses, a
\* down API becomes healthy (or the proxy is stopped), whether or not a request comes.
C23_DownHasProber ==
  /\ [](~stopped => (~apiHealthy <=> healthCheckTimer))
  /\ [](~stopped => (healthCheckTimer <=> liveTimers = 1))
  /\ (upstreamUp /\ ~apiHealthy) ~> (apiHealthy \/ stopped)

\* a health check has recovered the API after the upstream became reliable
C23_Witness ==
  /\ ev.end = "tick_up" /\ upstreamUp /\ ~stopped
  /\ apiHealthy /\ ~healthCheckTimer
  /\ \A r \in Slots : reqs[r].pc = "idle"

\* the handler that ended in the last step got no event stream in reply to any attempt
EndedWithoutSSE == Ended /\ ~ev.req.sawSSE

\* a running handler that got no event stream has written no response object yet
NothingBeforeTheEnd ==
  \A r \in Slots : reqs[r].pc # "idle" /\ ~reqs[r].sawSSE => reqs[r].answers = 0

\* the last step wrote the upstream's JSON reply to the request that ended
WroteUpstreamReply ==
  /\ ev.end = "reply"
  /\ Len(written) = 1 /\ written[1] \in UpstreamReplies(ev.req.id)

\* the last step wrote the fallback or error of the request that ended
WroteFallback ==
  /\ ev.end = "exhaust"
  /\ written = <<ExhaustReply(ev.req.method, ev.req.id, responseCache, ev.req.lastError)>>

\* C24 as stated: a request whose attempts got no event stream in reply is answered with
\* exactly one response object, which is the JSON reply of its first HTTP-ok attempt or
\* the fallback or error written after its last attempt.
C24_OneAnswerFirstOk ==
  /\ NothingBeforeTheEnd
  /\ EndedWithoutSSE =>
       /\ ev.req.answers = 1
       /\ \/ WroteUpstreamReply /\ ev.req.oks = 1
          \/ WroteFallback

\* C24 (amended): a request whose attempts got no event stream in reply is answered with
\* exactly one response object, written by the step that ends its handling: the JSON
\* reply of an HTTP-ok attempt (the first whose body was read; HTTP-ok attempts before it
\* threw while the body was read and were retried), or the fallback or error written
\* after the last attempt.
C24_OneAnswer ==
  /\ NothingBeforeTheEnd
  /\ EndedWithoutSSE =>
       /\ ev.req.answers = 1
       /\ \/ WroteUpstreamReply /\ ev.req.oks >= 1
          \/ WroteFallback

\* a request is answered with the JSON reply of its second HTTP-ok attempt, after retries
C24_Witness ==
  /\ EndedWithoutSSE /\ WroteUpstreamReply
  /\ ev.req.oks = 2 /\ ev.req.attempt >= 2 /\ ev.req.answers = 1
====
